---- MODULE Spec2Model ----
(***************************************************************************)
(* State-machine model of the whiteboard relay server, src/server.js       *)
(* lines 246-540 (the "V2" server with connection takeover and the 60 s    *)
(* room grace timer).  One action per transport event: a connection is     *)
(* accepted, one inbound message is handled to completion, a connection's  *)
(* close event fires, a grace timer fires.  Node runs each handler to      *)
(* completion, so every action is one whole handler.                       *)
(*                                                                         *)
(* Every handler is an operator from the current state and its input to a  *)
(* result: the state it leaves and the messages it sends, in order.  The   *)
(* actions apply the results; the properties read them.                    *)
(***************************************************************************)
EXTENDS Integers, Sequences, FiniteSets, TLC

\* ------------------------------------------------------------------ bounds
MaxMessages == 6   \* inbound messages handled in one behaviour
MaxChunks == 2     \* draw_chunk messages in the stroke runs the properties try

\* --------------------------------------------------------------- universes
Null == "null"
Undef == "undefined"

\* Sockets, in the order the server accepts them.
ConnSeq == <<"c1", "c2">>
Conns == {ConnSeq[i] : i \in DOMAIN ConnSeq}

\* User ids (tokens), in the order they first become keys of users.
UserSeq == <<"u1", "u2">>
UserIds == {UserSeq[i] : i \in DOMAIN UserSeq}

\* The ids uuidv4 mints for rooms, in the order it mints them.
RoomSeq == <<"r1", "r2">>
RoomIds == {RoomSeq[i] : i \in DOMAIN RoomSeq}

StrokeIds == {"s1", "s2"}
Keys == StrokeIds \cup {Undef}
Points == {"p1", "p2"}

VARIABLES
    users,        \* Map userId -> [ws, currentRoomId]
    userOrder,    \* insertion order of the users Map (its iteration order)
    seen,         \* how many userIds were ever a key of users
    connState,    \* ws.readyState of every socket
    connUser,     \* ws.userId of every socket (Null until auth)
    whiteboards,  \* Map roomId -> [clients, strokes, activeStrokes]
    nextRoom,     \* index in RoomSeq of the next roomId uuidv4 mints
    timers,       \* pending setTimeout callbacks, in firing order
    received      \* inbound messages handled so far

vars == <<users, userOrder, seen, connState, connUser, whiteboards, nextRoom,
          timers, received>>

\* ----------------------------------------------------------------- helpers
Restrict(f, S) == [x \in S |-> f[x]]

Put(f, k, v) == [x \in DOMAIN f \cup {k} |-> IF x = k THEN v ELSE f[x]]

Drop(f, k) == [x \in DOMAIN f \ {k} |-> f[x]]

RemoveAt(s, i) == [j \in 1..(Len(s) - 1) |-> IF j < i THEN s[j] ELSE s[j + 1]]

RECURSIVE Concat(_)
Concat(ss) == IF ss = <<>> THEN <<>> ELSE Head(ss) \o Concat(Tail(ss))

\* One outbound message: `to` is the socket it is written to; userId, roomId,
\* strokeId and whiteboards are the payload fields the message has; strokes,
\* activeStrokes and users are the snapshot a joined_room carries.
Msg(type, userId, roomId, strokeId, list) ==
    [to |-> Null, type |-> type, userId |-> userId, roomId |-> roomId,
     strokeId |-> strokeId, whiteboards |-> list,
     strokes |-> <<>>, activeStrokes |-> {}, users |-> {}]

NoList == <<>>

\* The state as a handler finds it, nothing sent yet.
Cur ==
    [users |-> users, userOrder |-> userOrder, seen |-> seen,
     connState |-> connState, connUser |-> connUser, whiteboards |-> whiteboards,
     nextRoom |-> nextRoom, timers |-> timers, msgs |-> <<>>, threw |-> FALSE]

\* ws.send on the socket c: written when the socket is OPEN ("OPEN" is the
\* code's readyState 1), dropped otherwise.
WsSend(CS, c, m) == IF CS[c] = "OPEN" THEN <<[m EXCEPT !.to = c]>> ELSE <<>>

\* getWhiteboardList: one summary per room; userCount is room.clients.size.
GetWhiteboardList(W) == [r \in DOMAIN W |-> Cardinality(W[r].clients)]

\* A lookup that, for a socket without userId, falls back to the record added
\* last.
GetUserByWsOrLast(c) ==
    IF connUser[c] # Null /\ connUser[c] \in DOMAIN users THEN connUser[c]
    ELSE IF connUser[c] = Null /\ userOrder # <<>> THEN userOrder[Len(userOrder)]
    ELSE Null

\* getUserByWs: the user record ws.userId names, if it exists.
GetUserByWs(c) ==
    IF connUser[c] # Null /\ connUser[c] \in DOMAIN users THEN connUser[c] ELSE Null

\* broadcast: every user record whose socket is OPEN, in Map order.
Broadcast(U, order, CS, m) ==
    Concat([i \in DOMAIN order |-> WsSend(CS, U[order[i]].ws, m)])

\* broadcastToRoom: every member but the excluded one whose user record exists
\* and whose socket is OPEN.
BroadcastToRoom(U, CS, W, roomId, m, excludeUserId) ==
    IF roomId \notin DOMAIN W THEN <<>>
    ELSE Concat([i \in DOMAIN UserSeq |->
        LET clientId == UserSeq[i] IN
        IF /\ clientId \in W[roomId].clients
           /\ clientId # excludeUserId
           /\ clientId \in DOMAIN U
        THEN WsSend(CS, U[clientId].ws, m)
        ELSE <<>>])

\* A leave that discards no active stroke.
KeptActiveAll(activeStrokes, userId) == activeStrokes

\* The active strokes leaveCurrentRoom keeps: those of other owners.
KeptActive(activeStrokes, userId) ==
    Restrict(activeStrokes,
             {k \in DOMAIN activeStrokes : activeStrokes[k].userId # userId})

\* A leave that sets the timer when the room still has members, not when it
\* is empty.
ScheduleDeletionIfPopulated(T, roomId, clients) ==
    IF clients # {} THEN Append(T, [roomId |-> roomId, joined |-> FALSE]) ELSE T

\* The timer queue after a leave that left `clients` in roomId.  `joined` is
\* bookkeeping for the properties: whether a member joined during the wait.
ScheduleDeletion(T, roomId, clients) ==
    IF clients = {} THEN Append(T, [roomId |-> roomId, joined |-> FALSE]) ELSE T

\* leaveCurrentRoom(userId) on a result R; its messages are appended.
LeaveCurrentRoom(userId, R) ==
    IF userId \notin DOMAIN R.users \/ R.users[userId].currentRoomId = Null
    THEN R
    ELSE
      LET roomId == R.users[userId].currentRoomId
          U1 == [R.users EXCEPT ![userId].currentRoomId = Null]
      IN IF roomId \notin DOMAIN R.whiteboards
         THEN [R EXCEPT !.users = U1]
         ELSE
           LET room == R.whiteboards[roomId]
               room1 == [clients |-> room.clients \ {userId},
                         strokes |-> room.strokes,
                         activeStrokes |-> KeptActive(room.activeStrokes, userId)]
               W1 == [R.whiteboards EXCEPT ![roomId] = room1]
               left == BroadcastToRoom(R.users, R.connState, W1, roomId,
                          Msg("user_left", userId, Null, Undef, NoList), Null)
           IN [R EXCEPT !.users = U1, !.whiteboards = W1,
                        !.timers = ScheduleDeletion(@, roomId, room1.clients),
                        !.msgs = @ \o left]

\* A join makes every pending timer of that room one whose wait saw a member.
MarkJoined(T, roomId) ==
    [i \in DOMAIN T |-> IF T[i].roomId = roomId THEN [T[i] EXCEPT !.joined = TRUE] ELSE T[i]]

\* ---------------------------------------------------------------- messages
\* An inbound message { type, payload }, every payload field the handlers read
\* in one record; a field the message does not carry is Undef (Null for roomId).
Message(type) ==
    [type |-> type, token |-> Undef, roomId |-> Null, strokeId |-> Undef,
     id |-> Undef, hasPoints |-> FALSE, points |-> <<>>, point |-> Undef,
     userId |-> Undef]

AuthMessages == {[Message("auth") EXCEPT !.token = t] : t \in UserIds \cup {Undef}}

RoomMessages ==
    {Message("create_room")}
    \cup {[Message("join_room") EXCEPT !.roomId = r] : r \in RoomIds}

\* start_stroke: the protocol requires strokeId and point; the handler reads id
\* and points.  A client sends either the protocol's fields alone, or adds id
\* (the strokeId) and points (holding the start point).  The payload may carry
\* a userId of the client's choosing: here none, or the id of the first user.
PayloadUserIds == {Undef, UserSeq[1]}

StartMessages ==
    {[Message("start_stroke") EXCEPT
         !.strokeId = k, !.point = p, !.id = IF full THEN k ELSE Undef,
         !.hasPoints = full, !.points = IF full THEN <<p>> ELSE <<>>,
         !.userId = o] :
        k \in StrokeIds, full \in BOOLEAN, p \in Points, o \in PayloadUserIds}

ChunkMessages ==
    {[Message("draw_chunk") EXCEPT !.strokeId = k, !.point = p] :
        k \in StrokeIds, p \in Points}

EndMessages == {[Message("end_stroke") EXCEPT !.strokeId = k] : k \in StrokeIds}

DeleteMessages == {[Message("delete_stroke") EXCEPT !.strokeId = k] : k \in StrokeIds}

CursorMessages == {Message("cursor_move")}

DrawingTypes == {"start_stroke", "draw_chunk", "end_stroke", "delete_stroke"}

Messages ==
    AuthMessages \cup RoomMessages \cup StartMessages \cup ChunkMessages
        \cup EndMessages \cup DeleteMessages \cup CursorMessages

\* ------------------------------------------------------------------- auth
\* Ids that were a key of users at some time.  A new id, whether uuidv4 mints
\* it or a client presents it as an unknown token, is the next of UserSeq: ids
\* are opaque strings, so which unused string it is makes no difference.
Seen == {UserSeq[i] : i \in 1..seen}

NextId == IF seen < Len(UserSeq) THEN UserSeq[seen + 1] ELSE Null

\* let userId = payload.token || uuidv4()
AuthUserId(m) == IF m.token # Undef THEN m.token ELSE NextId

\* The socket case 'auth' terminates: the old one, if it is another socket
\* and OPEN; Null when there is none.
Terminated(c, userId) ==
    IF /\ userId \in DOMAIN users
       /\ users[userId].ws # c
       /\ connState[users[userId].ws] = "OPEN"
    THEN users[userId].ws
    ELSE Null

\* An auth that stores every record with no room, a known user's too.
AuthRoomIdReset(userId) == Null

\* currentRoomId of the record users.set stores in case 'auth'.
AuthRoomId(userId) ==
    IF userId \in DOMAIN users THEN users[userId].currentRoomId ELSE Null

\* case 'auth' of handleMessage.
HandleAuth(c, m) ==
    LET userId == AuthUserId(m)
        isReconnecting == userId \in DOMAIN users
        oldWs == Terminated(c, userId)
        CS1 == IF oldWs # Null THEN [connState EXCEPT ![oldWs] = "CLOSING"]
               ELSE connState
    IN [Cur EXCEPT
          !.connState = CS1,
          !.users = Put(users, userId, [ws |-> c, currentRoomId |-> AuthRoomId(userId)]),
          !.userOrder = IF isReconnecting THEN userOrder ELSE Append(userOrder, userId),
          !.seen = IF userId \in Seen THEN seen ELSE seen + 1,
          !.connUser = [connUser EXCEPT ![c] = userId],
          !.msgs = WsSend(CS1, c, Msg("authenticated", userId, Null, Undef,
                                      GetWhiteboardList(whiteboards)))]

\* ------------------------------------------------------------------ rooms
NewWhiteboard == [clients |-> {}, strokes |-> <<>>, activeStrokes |-> <<>>]

\* handleRoomLogic lines 372-384: create_room registers the room and publishes
\* the room list; the result still has nobody in the new room.
CreatePart(R) ==
    LET W1 == Put(R.whiteboards, RoomSeq[R.nextRoom], NewWhiteboard)
    IN [R EXCEPT
          !.whiteboards = W1,
          !.nextRoom = @ + 1,
          !.msgs = @ \o Broadcast(R.users, R.userOrder, R.connState,
                                  Msg("room_list_update", Null, Null, Undef,
                                      GetWhiteboardList(W1)))]

\* The joined_room message (lines 397-405): the room's strokes, the values of
\* its activeStrokes and getUserListForRoom, the ids of its clients.
JoinedRoom(userId, roomId, room) ==
    [Msg("joined_room", userId, roomId, Undef, NoList) EXCEPT
        !.strokes = room.strokes,
        !.activeStrokes = {room.activeStrokes[k] : k \in DOMAIN room.activeStrokes},
        !.users = room.clients]

\* handleRoomLogic lines 389-412: the join of roomToJoinId.
JoinPart(userId, roomToJoinId, R) ==
    IF roomToJoinId \notin DOMAIN R.whiteboards
    THEN R
    ELSE
      LET W1 == [R.whiteboards EXCEPT ![roomToJoinId].clients = @ \cup {userId}]
          U1 == [R.users EXCEPT ![userId].currentRoomId = roomToJoinId]
          snap == WsSend(R.connState, U1[userId].ws,
                         JoinedRoom(userId, roomToJoinId, W1[roomToJoinId]))
          others == BroadcastToRoom(U1, R.connState, W1, roomToJoinId,
                        Msg("user_joined", userId, Null, Undef, NoList), userId)
      IN [R EXCEPT !.users = U1, !.whiteboards = W1,
                   !.timers = MarkJoined(@, roomToJoinId),
                   !.msgs = @ \o snap \o others]

\* A handleRoomLogic that joins without leaving the room the user is in.
HandleRoomLogicJoinOnly(userId, m) ==
    IF m.type = "create_room"
    THEN JoinPart(userId, RoomSeq[nextRoom], CreatePart(Cur))
    ELSE JoinPart(userId, m.roomId, Cur)

\* handleRoomLogic(user, type, payload)
HandleRoomLogic(userId, m) ==
    LET lv == LeaveCurrentRoom(userId, Cur)
    IN IF m.type = "create_room"
       THEN JoinPart(userId, RoomSeq[nextRoom], CreatePart(lv))
       ELSE JoinPart(userId, m.roomId, lv)

\* ---------------------------------------------------------------- strokes
\* A stroke object built as { userId: user.userId, ...payload }: a userId in
\* the payload wins.
NewStrokePayloadWins(m, userId) ==
    [id |-> m.id, userId |-> IF m.userId # Undef THEN m.userId ELSE userId,
     hasPoints |-> m.hasPoints, points |-> m.points]

\* const newStroke = { ...payload, userId: user.userId }: the userId of the
\* payload, if any, is overwritten.  hasPoints tells whether the object has a
\* points array at all.  The fields the server never reads again (strokeId,
\* point, style) are left out.
NewStroke(m, userId) ==
    [id |-> m.id, userId |-> userId, hasPoints |-> m.hasPoints, points |-> m.points]

\* case 'delete_stroke': room.strokes.findIndex(s => s.id === payload.strokeId),
\* 0 standing for the code's -1.
FindIndex(strokes, strokeId) ==
    LET hits == {i \in DOMAIN strokes : strokes[i].id = strokeId}
    IN IF hits = {} THEN 0 ELSE CHOOSE i \in hits : \A j \in hits : i <= j

\* case 'start_stroke' of handleDrawingState.
StartStroke(room, userId, m) ==
    [room EXCEPT !.activeStrokes = Put(@, m.id, NewStroke(m, userId))]

\* case 'draw_chunk', for a stroke that is active and has a points array.
DrawChunk(room, userId, m) ==
    [room EXCEPT !.activeStrokes[m.strokeId].points = Append(@, m.point)]

\* case 'end_stroke', for a stroke that is active.
EndStroke(room, userId, m) ==
    [clients |-> room.clients,
     strokes |-> Append(room.strokes, room.activeStrokes[m.strokeId]),
     activeStrokes |-> Drop(room.activeStrokes, m.strokeId)]

\* case 'delete_stroke': whether the handler removes the stroke at index i.
MayDelete(room, userId, i) == i # 0 /\ room.strokes[i].userId = userId

\* handleDrawingState(user, type, payload) on one room: [room, threw].  threw
\* is the TypeError of pushing onto a stroke that has no points array; the
\* try/catch of the message handler swallows it and the room is as it was.
HandleDrawingState(room, userId, m) ==
    CASE m.type = "start_stroke" ->
           [room |-> StartStroke(room, userId, m), threw |-> FALSE]
      [] m.type = "draw_chunk" ->
           IF m.strokeId \notin DOMAIN room.activeStrokes
           THEN [room |-> room, threw |-> FALSE]
           ELSE IF ~room.activeStrokes[m.strokeId].hasPoints
           THEN [room |-> room, threw |-> TRUE]
           ELSE [room |-> DrawChunk(room, userId, m), threw |-> FALSE]
      [] m.type = "end_stroke" ->
           IF m.strokeId \notin DOMAIN room.activeStrokes
           THEN [room |-> room, threw |-> FALSE]
           ELSE [room |-> EndStroke(room, userId, m), threw |-> FALSE]
      [] m.type = "delete_stroke" ->
           LET originalStrokeIndex == FindIndex(room.strokes, m.strokeId)
           IN IF MayDelete(room, userId, originalStrokeIndex)
              THEN [room |-> [room EXCEPT !.strokes = RemoveAt(@, originalStrokeIndex)],
                    threw |-> FALSE]
              ELSE [room |-> room, threw |-> FALSE]

\* The relay of a drawing message: the raw message to the room, the sender
\* excluded (handleMessage line 344).
Relay(userId, roomId, m) ==
    BroadcastToRoom(users, connState, whiteboards, roomId,
                    Msg(m.type, Null, Null, m.strokeId, NoList), userId)

\* A drawing handler that takes a draw_chunk or end_stroke of a stroke that is
\* not active for the start of that stroke.
HandleDrawingReviving(userId, m) ==
    LET roomId == users[userId].currentRoomId
    IN IF roomId = Null THEN Cur
       ELSE IF roomId \notin DOMAIN whiteboards
       THEN [Cur EXCEPT !.msgs = Relay(userId, roomId, m)]
       ELSE LET room == whiteboards[roomId]
                res == IF /\ m.type \in {"draw_chunk", "end_stroke"}
                          /\ m.strokeId \notin DOMAIN room.activeStrokes
                       THEN [room |-> StartStroke(room, userId, [m EXCEPT !.id = m.strokeId]),
                             threw |-> FALSE]
                       ELSE HandleDrawingState(room, userId, m)
            IN [Cur EXCEPT !.msgs = Relay(userId, roomId, m),
                           !.whiteboards[roomId] = res.room,
                           !.threw = res.threw]

\* cases 'start_stroke', 'draw_chunk', 'end_stroke', 'delete_stroke' of
\* handleMessage: relay, then handleDrawingState.
HandleDrawing(userId, m) ==
    LET roomId == users[userId].currentRoomId
    IN IF roomId = Null THEN Cur
       ELSE IF roomId \notin DOMAIN whiteboards
       THEN [Cur EXCEPT !.msgs = Relay(userId, roomId, m)]
       ELSE LET res == HandleDrawingState(whiteboards[roomId], userId, m)
            IN [Cur EXCEPT !.msgs = Relay(userId, roomId, m),
                           !.whiteboards[roomId] = res.room,
                           !.threw = res.threw]

\* case 'cursor_move': cursor_update to the room, the sender excluded.
HandleCursorMove(userId, m) ==
    LET roomId == users[userId].currentRoomId
    IN IF roomId = Null THEN Cur
       ELSE [Cur EXCEPT !.msgs =
                BroadcastToRoom(users, connState, whiteboards, roomId,
                                Msg("cursor_update", userId, Null, Undef, NoList),
                                userId)]

\* handleMessage(ws, message): a message other than auth from a socket that
\* resolves to no user is dropped.
HandleMessage(c, m) ==
    LET userId == GetUserByWs(c)
    IN IF m.type = "auth" THEN HandleAuth(c, m)
       ELSE IF userId = Null THEN Cur
       ELSE IF m.type \in {"create_room", "join_room"} THEN HandleRoomLogic(userId, m)
       ELSE IF m.type \in DrawingTypes THEN HandleDrawing(userId, m)
       ELSE HandleCursorMove(userId, m)

\* ------------------------------------------------------- close and timers
\* A close handler that trusts the userId tagged on the socket instead of
\* looking for the record that holds the socket.
UserIdToDisconnectByTag(c) ==
    IF connUser[c] \in DOMAIN users THEN connUser[c] ELSE Null

\* ws.on('close') lines 275-281: the first user record, in Map order, whose
\* ws is the closed socket; Null when there is none.
UserIdToDisconnect(c) ==
    LET hits == {i \in DOMAIN userOrder : users[userOrder[i]].ws = c}
    IN IF hits = {} THEN Null
       ELSE userOrder[CHOOSE i \in hits : \A j \in hits : i <= j]

\* A disconnect that also removes the strokes the user completed.
HandleDisconnectPurging(userId, R) ==
    IF userId \notin DOMAIN R.users THEN R
    ELSE LET lv == LeaveCurrentRoom(userId, R)
         IN [lv EXCEPT
               !.users = Drop(@, userId),
               !.userOrder = SelectSeq(@, LAMBDA u : u # userId),
               !.whiteboards =
                   [r \in DOMAIN lv.whiteboards |->
                       [lv.whiteboards[r] EXCEPT
                           !.strokes = SelectSeq(@, LAMBDA st : st.userId # userId)]]]

\* handleDisconnect(userId): leave the room, then delete the user record.
HandleDisconnect(userId, R) ==
    IF userId \notin DOMAIN R.users THEN R
    ELSE LET lv == LeaveCurrentRoom(userId, R)
         IN [lv EXCEPT !.users = Drop(@, userId),
                       !.userOrder = SelectSeq(@, LAMBDA u : u # userId)]

\* ws.on('close') for the socket c.
HandleClose(c) ==
    LET closed == [Cur EXCEPT !.connState[c] = "CLOSED"]
        userId == UserIdToDisconnect(c)
    IN IF userId = Null THEN closed ELSE HandleDisconnect(userId, closed)

\* A timer callback that only looks whether the room is still there.
StillPresent(roomId) == roomId \in DOMAIN whiteboards

\* Whether the timer callback finds its room present and empty (line 482).
StillEmpty(roomId) ==
    roomId \in DOMAIN whiteboards /\ whiteboards[roomId].clients = {}

\* The setTimeout callback of leaveCurrentRoom (lines 480-487) for the timer at
\* the head of the queue.
HandleTimer ==
    LET roomId == Head(timers).roomId
        popped == [Cur EXCEPT !.timers = Tail(@)]
    IN IF StillEmpty(roomId)
       THEN LET W1 == Drop(whiteboards, roomId)
            IN [popped EXCEPT
                  !.whiteboards = W1,
                  !.msgs = Broadcast(users, userOrder, connState,
                                     Msg("room_list_update", Null, Null, Undef,
                                         GetWhiteboardList(W1)))]
       ELSE popped

\* ------------------------------------------------------------------- state
Init ==
    /\ users = <<>>
    /\ userOrder = <<>>
    /\ seen = 0
    /\ connState = [c \in Conns |-> "NONE"]
    /\ connUser = [c \in Conns |-> Null]
    /\ whiteboards = <<>>
    /\ nextRoom = 1
    /\ timers = <<>>
    /\ received = 0

\* The state a handler's result R leaves.
Apply(R) ==
    /\ users' = R.users
    /\ userOrder' = R.userOrder
    /\ seen' = R.seen
    /\ connState' = R.connState
    /\ connUser' = R.connUser
    /\ whiteboards' = R.whiteboards
    /\ nextRoom' = R.nextRoom
    /\ timers' = R.timers

\* A socket delivers messages while OPEN and, for data it had buffered, after
\* terminate() ("CLOSING") until its close event fires.
Receives(c) == connState[c] \in {"OPEN", "CLOSING"}

\* The messages the model lets arrive in this state: an auth names a known id,
\* the next new id or no token; a create_room has an id of RoomSeq left to mint.
Admissible(m) ==
    /\ m.type = "auth" => (AuthUserId(m) \in Seen \/ (NextId # Null /\ AuthUserId(m) = NextId))
    /\ m.type = "create_room" => nextRoom <= Len(RoomSeq)

Accepts(c, m) == Receives(c) /\ Admissible(m)

\* wss.on('connection'): sockets are accepted in the order of ConnSeq.
Connect(c) ==
    /\ connState[c] = "NONE"
    /\ \A i, j \in DOMAIN ConnSeq :
          (i < j /\ ConnSeq[j] = c) => connState[ConnSeq[i]] # "NONE"
    /\ connState' = [connState EXCEPT ![c] = "OPEN"]
    /\ UNCHANGED <<users, userOrder, seen, connUser, whiteboards, nextRoom, timers,
                   received>>

\* ws.on('message'): one message handled to completion.
Receive(c, m) ==
    /\ Accepts(c, m)
    /\ received < MaxMessages
    /\ received' = received + 1
    /\ Apply(HandleMessage(c, m))

Auth(c) ==
    /\ Receives(c)
    /\ \E m \in AuthMessages : Receive(c, m)

RoomLogic(c) ==
    /\ Receives(c)
    /\ \E m \in RoomMessages : Receive(c, m)

StartStrokeMsg(c) ==
    /\ Receives(c)
    /\ \E m \in StartMessages : Receive(c, m)

DrawChunkMsg(c) ==
    /\ Receives(c)
    /\ \E m \in ChunkMessages : Receive(c, m)

EndStrokeMsg(c) ==
    /\ Receives(c)
    /\ \E m \in EndMessages : Receive(c, m)

DeleteStrokeMsg(c) ==
    /\ Receives(c)
    /\ \E m \in DeleteMessages : Receive(c, m)

CursorMove(c) ==
    /\ Receives(c)
    /\ \E m \in CursorMessages : Receive(c, m)

\* ws.on('close')
Close(c) ==
    /\ Receives(c)
    /\ Apply(HandleClose(c))
    /\ UNCHANGED received

\* The oldest grace timer fires.  Every timer waits the same 60 s, so they
\* fire in the order they were set.
TimerFire ==
    /\ timers # <<>>
    /\ Apply(HandleTimer)
    /\ UNCHANGED received

Next ==
    \/ \E c \in Conns : Connect(c)
    \/ \E c \in Conns : Auth(c)
    \/ \E c \in Conns : RoomLogic(c)
    \/ \E c \in Conns : StartStrokeMsg(c)
    \/ \E c \in Conns : DrawChunkMsg(c)
    \/ \E c \in Conns : EndStrokeMsg(c)
    \/ \E c \in Conns : DeleteStrokeMsg(c)
    \/ \E c \in Conns : CursorMove(c)
    \/ \E c \in Conns : Close(c)
    \/ TimerFire

Spec == Init /\ [][Next]_vars

\* Node runs a setTimeout callback once its delay has passed: a pending grace
\* timer does not wait for ever.
FairSpec == Spec /\ WF_vars(TimerFire)

\* ------------------------------------------------------------- properties
\* The room the user u is in, when it exists and lists u as a member.
InRoom(u, r) ==
    /\ u \in DOMAIN users
    /\ users[u].currentRoomId = r
    /\ r \in DOMAIN whiteboards
    /\ u \in whiteboards[r].clients

\* The completed entries of a room that carry the id k.
Named(strokes, k) == {i \in DOMAIN strokes : strokes[i].id = k}

\* C1: a delete_stroke from a room member who does not own the completed
\* stroke it names leaves the room's completedStrokes as it was and has no
\* message sent to any connection.
C1_NonOwnerDeleteIsSilent ==
    \A c \in Conns, m \in DeleteMessages, r \in RoomIds :
        LET u == GetUserByWs(c)
            res == HandleMessage(c, m)
        IN (/\ Accepts(c, m)
            /\ InRoom(u, r)
            /\ Named(whiteboards[r].strokes, m.strokeId) # {}
            /\ \A i \in Named(whiteboards[r].strokes, m.strokeId) :
                  whiteboards[r].strokes[i].userId # u)
           => /\ res.whiteboards[r].strokes = whiteboards[r].strokes
              /\ res.msgs = <<>>

\* C2: a grace timer deletes its room only if the room had no member at any
\* moment of the timer's wait: no join happened between the leave that set the
\* timer and its firing.
C2_DeletionOnlyIfEmptyThroughout ==
    timers # <<>> =>
        LET roomId == Head(timers).roomId
        IN (roomId \in DOMAIN whiteboards /\ roomId \notin DOMAIN HandleTimer.whiteboards)
           => ~Head(timers).joined

\* C3: in every room no stroke id is both a key of activeStrokes and the id of
\* a completed entry, and no id occurs twice in completedStrokes.
C3_StrokeIdInOneTable ==
    \A r \in DOMAIN whiteboards :
        LET room == whiteboards[r]
        IN /\ \A k \in DOMAIN room.activeStrokes : Named(room.strokes, k) = {}
           /\ \A i, j \in DOMAIN room.strokes :
                 room.strokes[i].id = room.strokes[j].id => i = j

\* The messages of one stroke: start_stroke(k) carrying ps[1], a draw_chunk(k)
\* for each further point of ps, end_stroke(k).  full tells whether the start
\* payload adds id and points to the protocol's strokeId and point.
StrokeRun(k, full, ps) ==
    <<[Message("start_stroke") EXCEPT
          !.strokeId = k, !.point = ps[1], !.id = IF full THEN k ELSE Undef,
          !.hasPoints = full, !.points = IF full THEN <<ps[1]>> ELSE <<>>]>>
    \o [i \in 1..(Len(ps) - 1) |->
          [Message("draw_chunk") EXCEPT !.strokeId = k, !.point = ps[i + 1]]]
    \o <<[Message("end_stroke") EXCEPT !.strokeId = k]>>

\* The room after handleDrawingState has handled ms, all from the member u.
RECURSIVE AfterDrawing(_, _, _)
AfterDrawing(room, u, ms) ==
    IF ms = <<>> THEN room
    ELSE AfterDrawing(HandleDrawingState(room, u, Head(ms)).room, u, Tail(ms))

\* C4: after start_stroke(id), N draw_chunk(id, p_i) and end_stroke(id) from one
\* room member with nothing in between, completedStrokes holds one entry for id
\* whose points are the N+1 points in the order sent, and id is not active.
C4_StrokeRunCompletesWithItsPoints ==
    \A r \in RoomIds, u \in UserIds, k \in StrokeIds, full \in BOOLEAN, n \in 0..MaxChunks :
        InRoom(u, r) =>
            \A ps \in [1..(n + 1) -> Points] :
                LET after == AfterDrawing(whiteboards[r], u, StrokeRun(k, full, ps))
                    entries == Named(after.strokes, k)
                IN /\ Cardinality(entries) = 1
                   /\ \A i \in entries : /\ after.strokes[i].hasPoints
                                         /\ after.strokes[i].points = ps
                   /\ k \notin DOMAIN after.activeStrokes

\* A socket that authenticated as u and is no longer the socket of u's record:
\* another socket took the user over.
Superseded(c, u) ==
    /\ connUser[c] = u
    /\ u \in DOMAIN users
    /\ users[u].ws # c

\* The active strokes of a room that u owns.
OwnedActive(room, u) ==
    {k \in DOMAIN room.activeStrokes : room.activeStrokes[k].userId = u}

\* What the user u has in the maps U and W: its record's room, the rooms that
\* list it as a member, and its active strokes in every room.
Holdings(u, U, W) ==
    [currentRoomId |-> U[u].currentRoomId,
     memberOf |-> {r \in DOMAIN W : u \in W[r].clients},
     active |-> [r \in DOMAIN W |-> Restrict(W[r].activeStrokes, OwnedActive(W[r], u))]]

\* C5: an auth with a known userId as token from another socket keeps that
\* userId, its currentRoomId, its room membership and its active strokes; and
\* the close event of a superseded socket removes neither the user record, nor
\* its membership, nor its active strokes.
C5_ReconnectKeepsSession ==
    /\ \A c \in Conns, m \in AuthMessages :
          LET u == m.token
              res == HandleMessage(c, m)
          IN (Accepts(c, m) /\ u \in DOMAIN users /\ users[u].ws # c)
             => /\ u \in DOMAIN res.users
                /\ res.users[u].ws = c
                /\ res.connUser[c] = u
                /\ Holdings(u, res.users, res.whiteboards)
                      = Holdings(u, users, whiteboards)
                /\ \A i \in DOMAIN res.msgs :
                      res.msgs[i].type = "authenticated" => res.msgs[i].userId = u
    /\ \A c \in Conns, u \in UserIds :
          LET res == HandleClose(c)
          IN (Receives(c) /\ Superseded(c, u))
             => /\ u \in DOMAIN res.users
                /\ res.users[u] = users[u]
                /\ Holdings(u, res.users, res.whiteboards)
                      = Holdings(u, users, whiteboards)

\* C5 witness: a superseded socket has closed, and the user it had is still in
\* a room with an active stroke of its own.
C5_Witness ==
    \E c \in Conns, u \in UserIds, r \in RoomIds :
        /\ connState[c] = "CLOSED"
        /\ Superseded(c, u)
        /\ InRoom(u, r)
        /\ OwnedActive(whiteboards[r], u) # {}

\* C6: after a takeover every message that arrives on the previous socket is
\* handled as unauthenticated: no state changes and nothing is sent.
C6_SupersededSocketIsUnauthenticated ==
    \A c \in Conns, u \in UserIds, m \in Messages \ AuthMessages :
        (Accepts(c, m) /\ Superseded(c, u)) => HandleMessage(c, m) = Cur

\* C7: when the socket of a user who owns k active strokes in their room
\* closes, or the user leaves the room, all k are removed from activeStrokes,
\* completedStrokes is as it was, and no end_stroke is sent.
C7_DisconnectDropsActiveStrokes ==
    /\ \A c \in Conns, u \in UserIds, r \in RoomIds :
          LET res == HandleClose(c)
          IN (Receives(c) /\ InRoom(u, r) /\ users[u].ws = c)
             => /\ OwnedActive(res.whiteboards[r], u) = {}
                /\ res.whiteboards[r].strokes = whiteboards[r].strokes
                /\ \A i \in DOMAIN res.msgs : res.msgs[i].type # "end_stroke"
    /\ \A c \in Conns, m \in RoomMessages, r \in RoomIds :
          LET u == GetUserByWs(c)
              res == HandleMessage(c, m)
          IN (Accepts(c, m) /\ InRoom(u, r))
             => /\ OwnedActive(res.whiteboards[r], u) = {}
                /\ res.whiteboards[r].strokes = whiteboards[r].strokes
                /\ \A i \in DOMAIN res.msgs : res.msgs[i].type # "end_stroke"

\* C8: a start_stroke whose strokeId is already in the room's activeStrokes or
\* completedStrokes is ignored: neither table changes.
C8_DuplicateStartIsIgnored ==
    \A c \in Conns, m \in StartMessages, r \in RoomIds :
        LET u == GetUserByWs(c)
            res == HandleMessage(c, m)
        IN (/\ Accepts(c, m)
            /\ InRoom(u, r)
            /\ \/ m.strokeId \in DOMAIN whiteboards[r].activeStrokes
               \/ Named(whiteboards[r].strokes, m.strokeId) # {})
           => res.whiteboards[r] = whiteboards[r]

\* C9: after create_room the creator is a member of the new room with
\* currentRoomId set to it, and the room_list_update of the creation reaches
\* every authenticated user and gives the new room a member count of 1.
C9_CreateRoomListsCreator ==
    \A c \in Conns :
        LET m == Message("create_room")
            u == GetUserByWs(c)
            new == RoomSeq[nextRoom]
            res == HandleMessage(c, m)
        IN (Accepts(c, m) /\ u # Null)
           => /\ res.users[u].currentRoomId = new
              /\ u \in res.whiteboards[new].clients
              /\ \A v \in DOMAIN res.users :
                    \E i \in DOMAIN res.msgs :
                        /\ res.msgs[i].type = "room_list_update"
                        /\ res.msgs[i].to = res.users[v].ws
                        /\ new \in DOMAIN res.msgs[i].whiteboards
                        /\ res.msgs[i].whiteboards[new] = 1

\* C10: a join_room naming a room that does not exist is a no-op: the sender's
\* currentRoomId, membership and active strokes stay, nothing is sent and no
\* deletion timer is set.
C10_JoinUnknownRoomIsNoOp ==
    \A c \in Conns, m \in RoomMessages :
        (/\ Accepts(c, m)
         /\ m.type = "join_room"
         /\ m.roomId \notin DOMAIN whiteboards
         /\ GetUserByWs(c) # Null)
        => HandleMessage(c, m) = Cur

\* Whether the socket c is live: OPEN, the code's readyState 1.
Live(c) == connState[c] = "OPEN"

\* C11: every member of every room is the key of a user record, and that
\* record's socket is live: no closed or terminated socket keeps a user in a
\* room.
C11_MembersAreLiveUsers ==
    \A r \in DOMAIN whiteboards : \A u \in whiteboards[r].clients :
        /\ u \in DOMAIN users
        /\ Live(users[u].ws)

\* C12: no two user records hold the same socket, also after one socket has
\* sent auth twice with different tokens.
C12_SocketOfOneUser ==
    \A u, v \in DOMAIN users : users[u].ws = users[v].ws => u = v

\* C13: a message of a type other than auth that arrives on a socket that has
\* not authenticated changes no user, room or stroke state and has nothing
\* sent to any socket.
C13_UnauthenticatedIsDropped ==
    \A c \in Conns, m \in Messages \ AuthMessages :
        (Accepts(c, m) /\ connUser[c] = Null) => HandleMessage(c, m) = Cur

\* C13 witness: a socket that has not authenticated is delivering messages
\* while a room with a member exists.
C13_Witness ==
    \E c \in Conns, r \in RoomIds, u \in UserIds :
        /\ Receives(c)
        /\ connUser[c] = Null
        /\ received > 0
        /\ InRoom(u, r)

\* How many messages of the given type a handler wrote to the socket c.
Count(msgs, type, c) ==
    Cardinality({i \in DOMAIN msgs : msgs[i].type = type /\ msgs[i].to = c})

\* The members of a room, the excluded one apart, whose record holds the
\* socket c while c is live.
LiveMembersOn(U, CS, clients, excludeUserId, c) ==
    {v \in clients \ {excludeUserId} : v \in DOMAIN U /\ U[v].ws = c /\ CS[c] = "OPEN"}

\* One room-scoped event among msgs: every socket got it once for each live
\* member it belongs to, and a socket of a user who is not a member, or of the
\* excluded sender, got none.
DeliveredOnce(msgs, type, U, CS, clients, excludeUserId) ==
    \A c \in Conns :
        /\ Count(msgs, type, c)
              = Cardinality(LiveMembersOn(U, CS, clients, excludeUserId, c))
        /\ (\E v \in DOMAIN U : U[v].ws = c /\ (v \notin clients \/ v = excludeUserId))
              => Count(msgs, type, c) = 0

\* C14: a room-scoped event (a relayed drawing event, cursor_update,
\* user_joined, user_left) is delivered exactly once to each room member whose
\* connection is live, the excluded sender apart, and to no connection of a
\* user who is not a member of the room at that moment.
C14_RoomEventDeliveredOnce ==
    /\ \A c \in Conns, m \in Messages \ (AuthMessages \cup RoomMessages), r \in RoomIds :
          LET u == GetUserByWs(c)
              type == IF m.type = "cursor_move" THEN "cursor_update" ELSE m.type
          IN (Accepts(c, m) /\ InRoom(u, r))
             => DeliveredOnce(HandleMessage(c, m).msgs, type, users, connState,
                              whiteboards[r].clients, u)
    /\ \A c \in Conns, m \in RoomMessages, r \in RoomIds :
          LET u == GetUserByWs(c)
              res == HandleMessage(c, m)
              joined == res.users[u].currentRoomId
          IN (Accepts(c, m) /\ InRoom(u, r))
             => /\ DeliveredOnce(res.msgs, "user_left", users, connState,
                                 whiteboards[r].clients \ {u}, Null)
                /\ joined # Null
                      => DeliveredOnce(res.msgs, "user_joined", res.users, res.connState,
                                       res.whiteboards[joined].clients, u)
    /\ \A c \in Conns, r \in RoomIds :
          LET u == UserIdToDisconnect(c)
              res == HandleClose(c)
          IN (Receives(c) /\ InRoom(u, r))
             => DeliveredOnce(res.msgs, "user_left", users, res.connState,
                              whiteboards[r].clients \ {u}, Null)

\* C15: on a join_room of an existing room the joined_room snapshot is sent to
\* the joiner's connection only and holds the room's completedStrokes in
\* order, all its activeStrokes and its members, the joiner among them;
\* user_joined is sent to every other member and not to the joiner.
C15_JoinSnapshotAndNotice ==
    \A c \in Conns, m \in RoomMessages :
        LET u == GetUserByWs(c)
            r == m.roomId
            res == HandleMessage(c, m)
            room == res.whiteboards[r]
            snaps == {i \in DOMAIN res.msgs : res.msgs[i].type = "joined_room"}
        IN (/\ Accepts(c, m)
            /\ m.type = "join_room"
            /\ r \in DOMAIN whiteboards
            /\ u # Null
            /\ Live(users[u].ws))
           => /\ Cardinality(snaps) = 1
              /\ \A i \in snaps :
                    /\ res.msgs[i].to = users[u].ws
                    /\ res.msgs[i].roomId = r
                    /\ res.msgs[i].strokes = room.strokes
                    /\ res.msgs[i].activeStrokes
                          = {room.activeStrokes[k] : k \in DOMAIN room.activeStrokes}
                    /\ res.msgs[i].users = room.clients
                    /\ u \in res.msgs[i].users
              /\ \A v \in room.clients \ {u} :
                    Live(res.users[v].ws) => Count(res.msgs, "user_joined", res.users[v].ws) >= 1
              /\ Count(res.msgs, "user_joined", users[u].ws) = 0

\* C16: when a member of room r1 joins or creates another room r2, the removal
\* from r1, the discarding of the user's active strokes in r1 and the user_left
\* broadcast all come before any effect of the join on r2 (membership,
\* joined_room, user_joined); the user is never a member of two rooms.
C16_LeaveBeforeJoin ==
    /\ \A u \in UserIds : \A r1, r2 \in DOMAIN whiteboards :
          (u \in whiteboards[r1].clients /\ u \in whiteboards[r2].clients) => r1 = r2
    /\ \A c \in Conns, m \in RoomMessages, r1 \in RoomIds :
          LET u == GetUserByWs(c)
              res == HandleMessage(c, m)
              r2 == res.users[u].currentRoomId
          IN (Accepts(c, m) /\ InRoom(u, r1) /\ r2 # Null /\ r2 # r1)
             => /\ u \notin res.whiteboards[r1].clients
                /\ OwnedActive(res.whiteboards[r1], u) = {}
                /\ u \in res.whiteboards[r2].clients
                /\ \A v \in whiteboards[r1].clients \ {u} :
                      Live(users[v].ws) => Count(res.msgs, "user_left", users[v].ws) >= 1
                /\ \A i, j \in DOMAIN res.msgs :
                      (/\ res.msgs[i].type = "user_left"
                       /\ res.msgs[j].type \in {"joined_room", "user_joined"})
                      => i < j

\* C16 witness: a member of a room who owns an active stroke there can switch
\* to a second room while another member, on another live socket, stays.
C16_Witness ==
    \E c \in Conns, u, v \in UserIds, r1, r2 \in RoomIds :
        /\ Receives(c)
        /\ GetUserByWs(c) = u
        /\ InRoom(u, r1)
        /\ InRoom(v, r1)
        /\ v # u
        /\ Live(users[v].ws)
        /\ users[v].ws # users[u].ws
        /\ OwnedActive(whiteboards[r1], u) # {}
        /\ r2 # r1
        /\ r2 \in DOMAIN whiteboards

\* The strokes of the room r in W1 have the owners they had in W0: an active
\* stroke keeps its owner, a completed one was completed or active under the
\* same id and owner.  started is the key a start_stroke of the user u has
\* just set in r, Null when there is none.
OwnersKept(W0, W1, r, started, u) ==
    /\ \A k \in DOMAIN W1[r].activeStrokes :
          IF k = started
          THEN W1[r].activeStrokes[k].userId = u
          ELSE /\ k \in DOMAIN W0[r].activeStrokes
               /\ W1[r].activeStrokes[k].userId = W0[r].activeStrokes[k].userId
    /\ \A i \in DOMAIN W1[r].strokes :
          \/ \E j \in DOMAIN W0[r].strokes :
                /\ W0[r].strokes[j].id = W1[r].strokes[i].id
                /\ W0[r].strokes[j].userId = W1[r].strokes[i].userId
          \/ \E k \in DOMAIN W0[r].activeStrokes :
                /\ W0[r].activeStrokes[k].id = W1[r].strokes[i].id
                /\ W0[r].activeStrokes[k].userId = W1[r].strokes[i].userId

\* C17: a stroke in activeStrokes or completedStrokes has as owner the user
\* whose start_stroke created it, whatever userId the payload carried: a
\* start_stroke stores the sender as owner, and no handler changes the owner
\* of a stored stroke.
C17_OwnerIsTheSender ==
    /\ \A c \in Conns, m \in Messages :
          LET u == GetUserByWs(c)
              res == HandleMessage(c, m)
          IN Accepts(c, m)
             => /\ \A r \in RoomIds :
                      (m.type = "start_stroke" /\ InRoom(u, r))
                      => /\ m.id \in DOMAIN res.whiteboards[r].activeStrokes
                         /\ res.whiteboards[r].activeStrokes[m.id].userId = u
                /\ res.whiteboards # whiteboards
                      => \A r \in DOMAIN whiteboards :
                            /\ r \in DOMAIN res.whiteboards
                            /\ OwnersKept(whiteboards, res.whiteboards, r,
                                          IF m.type = "start_stroke" /\ InRoom(u, r)
                                          THEN m.id ELSE Null,
                                          u)
    /\ \A c \in Conns :
          Receives(c)
          => \A r \in DOMAIN whiteboards :
                OwnersKept(whiteboards, HandleClose(c).whiteboards, r, Null, Null)

\* C17 witness: a room holds an active stroke of the second user, whose
\* start_stroke may have named the first user, and a completed stroke of the
\* second user too.
C17_Witness ==
    \E r \in DOMAIN whiteboards :
        LET u == UserSeq[2]
        IN /\ OwnedActive(whiteboards[r], u) # {}
           /\ \E i \in DOMAIN whiteboards[r].strokes : whiteboards[r].strokes[i].userId = u

\* The sequence s without its i-th entry.
Without(s, i) == SubSeq(s, 1, i - 1) \o SubSeq(s, i + 1, Len(s))

\* What C18 says of a delete_stroke(k) of the member u handled on a room: if u
\* owns a completed stroke named k, exactly one such entry goes, the others
\* keep their order and activeStrokes is as it was; if k is still active,
\* nothing goes.
DeleteRemovesOwn(room, u, k) ==
    LET after == HandleDrawingState(room, u,
                    [Message("delete_stroke") EXCEPT !.strokeId = k]).room
        own == {i \in Named(room.strokes, k) : room.strokes[i].userId = u}
    IN /\ own # {}
          => /\ \E i \in own : after.strokes = Without(room.strokes, i)
             /\ after.activeStrokes = room.activeStrokes
       /\ k \in DOMAIN room.activeStrokes => after = room

\* C18: a delete_stroke from the owner of a completed stroke removes exactly
\* that stroke from completedStrokes, the other entries keeping their order
\* and activeStrokes unchanged, and is delivered to every other live member; a
\* delete_stroke naming a stroke that is still active removes nothing.  The
\* room is the one the state holds, or that room after one more stroke run of
\* a member.
C18_OwnerDeleteRemovesStroke ==
    \A c \in Conns, m \in DeleteMessages, r \in RoomIds :
        LET u == GetUserByWs(c)
            res == HandleMessage(c, m)
            room == whiteboards[r]
        IN (Accepts(c, m) /\ InRoom(u, r))
           => /\ DeleteRemovesOwn(room, u, m.strokeId)
              /\ res.whiteboards[r]
                    = HandleDrawingState(room, u, m).room
              /\ (\E i \in Named(room.strokes, m.strokeId) : room.strokes[i].userId = u)
                    => \A v \in room.clients \ {u} :
                          Live(users[v].ws)
                          => Count(res.msgs, "delete_stroke", users[v].ws) >= 1
              /\ \A v \in room.clients, k \in StrokeIds, ps \in [1..1 -> Points] :
                    DeleteRemovesOwn(AfterDrawing(room, v, StrokeRun(k, TRUE, ps)),
                                     u, m.strokeId)

\* The timer at the head of the queue, if any, is for a room with a member.
TimerOfPopulatedRoom ==
    /\ timers # <<>>
    /\ Head(timers).roomId \in DOMAIN whiteboards
    /\ whiteboards[Head(timers).roomId].clients # {}

\* C19: a room with a member is never deleted.  When a grace timer fires for a
\* room that has a member, every room with its completedStrokes and
\* activeStrokes stays and nothing is published; and no step at all removes a
\* room that has a member.
C19_PopulatedRoomIsKept ==
    /\ [](TimerOfPopulatedRoom
            => /\ HandleTimer.whiteboards = whiteboards
               /\ HandleTimer.msgs = <<>>)
    /\ [][\A r \in DOMAIN whiteboards :
             whiteboards[r].clients # {} => r \in DOMAIN whiteboards']_vars

\* C19 witness: a grace timer is about to fire for a room that has a member
\* again.
C19_Witness ==
    /\ TimerOfPopulatedRoom
    /\ Head(timers).joined

\* The room r is in the store and has no member.
EmptyRoom(r) == r \in DOMAIN whiteboards /\ whiteboards[r].clients = {}

\* C20: with grace timers that fire, a room whose membership becomes empty and
\* stays empty is eventually deleted, and the callback that deletes it sends
\* every user with a live connection a room_list_update without that room.
C20_EmptyRoomIsDeleted ==
    /\ \A r \in RoomIds : EmptyRoom(r) ~> ~EmptyRoom(r)
    /\ []((timers # <<>> /\ EmptyRoom(Head(timers).roomId))
            => LET r == Head(timers).roomId
                   res == HandleTimer
               IN /\ r \notin DOMAIN res.whiteboards
                  /\ \A v \in DOMAIN users :
                        Live(users[v].ws)
                        => \E i \in DOMAIN res.msgs :
                              /\ res.msgs[i].type = "room_list_update"
                              /\ res.msgs[i].to = users[v].ws
                              /\ r \notin DOMAIN res.msgs[i].whiteboards)

\* C20 witness: a room that was created is gone from the store while a user
\* with a live connection is there to have been told.
C20_Witness ==
    /\ \E i \in 1..(nextRoom - 1) : RoomSeq[i] \notin DOMAIN whiteboards
    /\ \E v \in DOMAIN users : Live(users[v].ws)

\* The user u has currentRoomId r and the room r is in the store.
AtRoom(u, r) ==
    /\ u \in DOMAIN users
    /\ users[u].currentRoomId = r
    /\ r \in DOMAIN whiteboards

\* C21: a draw_chunk or end_stroke naming a strokeId that is not in the room's
\* activeStrokes (never started, already ended, or discarded by a leave or a
\* disconnect) raises no error and leaves activeStrokes and completedStrokes of
\* every room as they were: the stroke is not re-created.
C21_UnknownStrokeIsNoOp ==
    \A c \in Conns, m \in ChunkMessages \cup EndMessages, r \in RoomIds :
        LET u == GetUserByWs(c)
            res == HandleMessage(c, m)
        IN (/\ Accepts(c, m)
            /\ AtRoom(u, r)
            /\ m.strokeId \notin DOMAIN whiteboards[r].activeStrokes)
           => /\ ~res.threw
              /\ res.whiteboards = whiteboards
              /\ \A v \in whiteboards[r].clients :
                    HandleDrawingState(whiteboards[r], v, m)
                       = [room |-> whiteboards[r], threw |-> FALSE]

\* C21 witness: a member's connection is delivering messages in a room where
\* one stroke id was ended (it is completed and not active) and another was
\* never started or was discarded.
C21_Witness ==
    \E c \in Conns, r \in RoomIds, k1, k2 \in StrokeIds :
        /\ Receives(c)
        /\ InRoom(GetUserByWs(c), r)
        /\ k1 \notin DOMAIN whiteboards[r].activeStrokes
        /\ Named(whiteboards[r].strokes, k1) # {}
        /\ k2 \notin DOMAIN whiteboards[r].activeStrokes
        /\ Named(whiteboards[r].strokes, k2) = {}
        /\ received >= 5

\* C22: a join_room naming the room the sender is already a member of performs
\* no leave: no user_left is sent, the sender's active strokes in that room
\* stay and no deletion timer is set.
C22_RejoinPerformsNoLeave ==
    \A c \in Conns, m \in RoomMessages :
        LET u == GetUserByWs(c)
            r == m.roomId
            res == HandleMessage(c, m)
        IN (Accepts(c, m) /\ m.type = "join_room" /\ InRoom(u, r))
           => /\ \A i \in DOMAIN res.msgs : res.msgs[i].type # "user_left"
              /\ Restrict(res.whiteboards[r].activeStrokes, OwnedActive(res.whiteboards[r], u))
                    = Restrict(whiteboards[r].activeStrokes, OwnedActive(whiteboards[r], u))
              /\ Len(res.timers) = Len(timers)

\* The store as it is when handleMessage sends the relay of a drawing message
\* (line 344): handleDrawingState (line 345) has not run yet.
StoreAtRelay(userId, m) == whiteboards

\* Whether the stroke-table transition of the drawing message m of the member
\* u took room0 to room1.
Applied(room0, room1, u, m) ==
    CASE m.type = "start_stroke" ->
           /\ m.id \in DOMAIN room1.activeStrokes
           /\ room1.activeStrokes[m.id].userId = u
      [] m.type = "draw_chunk" ->
           /\ m.strokeId \in DOMAIN room0.activeStrokes
           /\ m.strokeId \in DOMAIN room1.activeStrokes
           /\ room1.activeStrokes[m.strokeId].points
                 = Append(room0.activeStrokes[m.strokeId].points, m.point)
      [] m.type = "end_stroke" ->
           /\ m.strokeId \in DOMAIN room0.activeStrokes
           /\ m.strokeId \notin DOMAIN room1.activeStrokes
           /\ room1.strokes = Append(room0.strokes, room0.activeStrokes[m.strokeId])
      [] m.type = "delete_stroke" ->
           /\ Len(room1.strokes) = Len(room0.strokes) - 1
           /\ Cardinality(Named(room1.strokes, m.strokeId))
                 = Cardinality(Named(room0.strokes, m.strokeId)) - 1

\* C23: for start_stroke, draw_chunk, end_stroke and delete_stroke the
\* stroke-table transition is applied before the relay is sent to any peer:
\* when a peer is sent the relay, the transition has been applied, and the
\* store at the moment of the send is the store the handler leaves.
C23_TransitionBeforeRelay ==
    \A c \in Conns, r \in RoomIds :
        \A m \in StartMessages \cup ChunkMessages \cup EndMessages \cup DeleteMessages :
            LET u == GetUserByWs(c)
                res == HandleMessage(c, m)
            IN (Accepts(c, m) /\ InRoom(u, r) /\ res.msgs # <<>>)
               => /\ Applied(whiteboards[r], res.whiteboards[r], u, m)
                  /\ StoreAtRelay(u, m) = res.whiteboards

\* C24: for every user u and room r, u is in r's members if and only if u's
\* currentRoomId is r and r is in the room store; so every user is a member of
\* at most one room, and no user's currentRoomId names a room that is deleted.
C24_MembershipIsCurrentRoom ==
    /\ \A u \in UserIds, r \in RoomIds :
          (r \in DOMAIN whiteboards /\ u \in whiteboards[r].clients) <=> AtRoom(u, r)
    /\ \A u \in UserIds :
          Cardinality({r \in DOMAIN whiteboards : u \in whiteboards[r].clients}) <= 1
    /\ \A u \in DOMAIN users :
          users[u].currentRoomId # Null => users[u].currentRoomId \in DOMAIN whiteboards

\* C24 witness: a user who reconnected on another socket is a member of a
\* room, a second user is in no room, and a room created earlier is deleted.
C24_Witness ==
    \E c \in Conns, u, v \in UserIds, r \in RoomIds :
        /\ Superseded(c, u)
        /\ InRoom(u, r)
        /\ v \in DOMAIN users
        /\ users[v].currentRoomId = Null
        /\ \E i \in 1..(nextRoom - 1) : RoomSeq[i] \notin DOMAIN whiteboards

\* Whether the active stroke k of room0 has other points in room1, or was moved
\* to the completed strokes of room1.
PointsChangedOrCompleted(room0, room1, k) ==
    \/ /\ k \in DOMAIN room1.activeStrokes
       /\ room1.activeStrokes[k].points # room0.activeStrokes[k].points
    \/ /\ k \notin DOMAIN room1.activeStrokes
       /\ Len(room1.strokes) > Len(room0.strokes)

\* C25: the points of an active stroke change, and an active stroke is moved to
\* completedStrokes, only through a draw_chunk or end_stroke of the stroke's
\* owner; a draw_chunk or end_stroke of another room member naming that stroke
\* leaves the stroke as it was.
C25_OnlyOwnerDrawsStroke ==
    /\ \A c \in Conns, m \in ChunkMessages \cup EndMessages, r \in RoomIds :
          LET u == GetUserByWs(c)
              k == m.strokeId
              res == HandleMessage(c, m)
          IN (/\ Accepts(c, m)
              /\ InRoom(u, r)
              /\ k \in DOMAIN whiteboards[r].activeStrokes
              /\ whiteboards[r].activeStrokes[k].userId # u)
             => res.whiteboards[r] = whiteboards[r]
    /\ \A c \in Conns, m \in Messages, r \in DOMAIN whiteboards :
          LET u == GetUserByWs(c)
              res == HandleMessage(c, m)
          IN Accepts(c, m)
             => \A k \in DOMAIN whiteboards[r].activeStrokes :
                   PointsChangedOrCompleted(whiteboards[r], res.whiteboards[r], k)
                   => /\ m.type \in {"draw_chunk", "end_stroke"}
                      /\ m.strokeId = k
                      /\ whiteboards[r].activeStrokes[k].userId = u

\* C26: the owner of every entry of a room's activeStrokes is a current member
\* of that room: no active stroke outlives its owner's membership.
C26_ActiveStrokeOwnerIsMember ==
    \A r \in DOMAIN whiteboards : \A k \in DOMAIN whiteboards[r].activeStrokes :
        /\ whiteboards[r].activeStrokes[k].userId \in whiteboards[r].clients
        /\ InRoom(whiteboards[r].activeStrokes[k].userId, r)

\* C26 witness: a room that a leave had emptied (its grace timer is pending)
\* has members again; one owns an active stroke there, and another user, who
\* was a key of users, is not a member.
C26_Witness ==
    \E r \in DOMAIN whiteboards, u, v \in UserIds :
        /\ OwnedActive(whiteboards[r], u) # {}
        /\ InRoom(u, r)
        /\ \E i \in DOMAIN timers : timers[i].roomId = r
        /\ v \in Seen
        /\ v \notin whiteboards[r].clients

\* Every room of W0 is in W1 with the completedStrokes it had, in order.
StrokesKept(W0, W1) ==
    \A r \in DOMAIN W0 : r \in DOMAIN W1 /\ W1[r].strokes = W0[r].strokes

\* C27: leave, disconnect, join, auth or reconnect, and cursor_move never
\* change any room's completedStrokes: the completed strokes of a user stay in
\* the room, in order, after that user leaves or disconnects.
C27_CompletedStrokesStay ==
    /\ \A c \in Conns, m \in AuthMessages \cup RoomMessages \cup CursorMessages :
          Accepts(c, m) => StrokesKept(whiteboards, HandleMessage(c, m).whiteboards)
    /\ \A c \in Conns :
          Receives(c) => StrokesKept(whiteboards, HandleClose(c).whiteboards)

\* C27 witness: a room holds a completed stroke whose owner is no longer a
\* member of it, having left or disconnected.
C27_Witness ==
    \E r \in DOMAIN whiteboards : \E i \in DOMAIN whiteboards[r].strokes :
        /\ whiteboards[r].strokes[i].userId \notin whiteboards[r].clients
        /\ whiteboards[r].strokes[i].userId \in Seen

====
